---- MODULE Spec2Model ----
(***************************************************************************)
(* hydromodel/trainers/evaluate.py: post-processing of a per-basin         *)
(* calibration run.  Every function of the file is one action that runs    *)
(* the whole function on inputs found in the state; a run either returns   *)
(* or raises, and the files it wrote are part of the state.                *)
(*                                                                         *)
(* Numbers are integers: the values of the files are points of a grid, and *)
(* the sums and products the functions take of them are exact on it.       *)
(***************************************************************************)
EXTENDS Integers, Sequences, FiniteSets, TLC

VARIABLES
  stage,         \* which function family this run of the pipeline exercises
  pc,            \* "ready" before the call, "done" after it
  called,        \* name of the function that ran
  raised,        \* TRUE when the call ended with an exception
  basin_id,      \* read_save_sceua_calibrated_params: its basin
  sceua_csv,     \* the SCE-UA result file of that basin (the population)
  params_txt,    \* basin -> <basin>_calibrate_params.txt
  ret,           \* value returned by read_save_sceua_calibrated_params
  model_name,    \* key of MODEL_PARAM_DICT
  basin_ids,     \* list of basin ids given to the parameter summaries
  basins_params_csv,                  \* basins_params.csv
  basins_renormalization_params_csv,  \* basins_renormalization_params.csv
  all_basins_files,                   \* the basin directories of result_dir
  basins_metrics_train_csv,
  basins_metrics_test_csv,
  args_json,          \* args.json: warmup_length
  data_info_train,    \* train split: period (json) and forcing array (npy)
  data_info_test,
  basin_etsim_train_csv,
  basin_etsim_test_csv

vars == << stage, pc, called, raised, basin_id, sceua_csv, params_txt, ret,
           model_name, basin_ids, basins_params_csv,
           basins_renormalization_params_csv, all_basins_files,
           basins_metrics_train_csv, basins_metrics_test_csv, args_json,
           data_info_train, data_info_test, basin_etsim_train_csv,
           basin_etsim_test_csv >>

(***************************************************************************)
(* Bounds of the model.                                                    *)
(***************************************************************************)
MaxRecords == 2    \* records of a population
MaxObj == 1        \* objective values are 0..MaxObj
MaxVal == 1        \* normalized parameter values are 0..MaxVal
MaxBasins == 2     \* length of a basin-id list
MaxT == 2          \* time steps of a forcing period
MaxWarm == 2       \* warmup_length is 0..MaxWarm

Basins == {"b1", "b2"}
Val == 0..MaxVal

\* Sequences over S of length lo..hi.
SeqsOf(S, lo, hi) == UNION {[1..n -> S] : n \in lo..hi}

\* Sequences without repetition.
Distinct(s) == \A i, j \in 1..Len(s) : i # j => s[i] # s[j]

(***************************************************************************)
(* Files.                                                                  *)
(***************************************************************************)
\* A text file of one value per line.
NoFile == [exists |-> FALSE, lines |-> <<>>]
TextFile(lines) == [exists |-> TRUE, lines |-> lines]

\* A csv table: row labels, column labels, rows of cells.
NoTable == [exists |-> FALSE, index |-> <<>>, columns |-> <<>>, values |-> <<>>]
Table(index, columns, values) ==
  [exists |-> TRUE, index |-> index, columns |-> columns, values |-> values]

\* DataFrame.transpose
Transpose(index, columns, values) ==
  Table(columns, index,
        [c \in 1..Len(columns) |-> [r \in 1..Len(index) |-> values[r][c]]])

(***************************************************************************)
(* read_save_sceua_calibrated_params                                       *)
(***************************************************************************)
\* Field names of the result file, spelled out so that the prefix test is
\* the test the code makes.
like1 == <<"l", "i", "k", "e", "1">>
parx == <<"p", "a", "r", "x">>
pary == <<"p", "a", "r", "y">>
xpar == <<"x", "p", "a", "r">>
pa == <<"p", "a">>
simulation == <<"s", "i", "m", "u", "l", "a", "t", "i", "o", "n">>
chain == <<"c", "h", "a", "i", "n">>
like == <<"l", "i", "k", "e">>

\* str.startswith
startswith(word, prefix) ==
  /\ Len(word) >= Len(prefix)
  /\ SubSeq(word, 1, Len(prefix)) = prefix

\* Headers of the populations considered: parameter fields next to each
\* other, parameter fields apart, one parameter field, and no field with the
\* prefix (one has it inside the name, one has only a part of it).
Headers ==
  { <<like1, parx, pary, chain>>,
    <<like1, parx, simulation, pary>>,
    <<like1, parx, chain>>,
    <<like1, xpar, pa>> }

\* The values a record may hold under a field name.
FieldValues(name) ==
  IF name = like1 THEN 0..MaxObj
  ELSE IF startswith(name, <<"p", "a", "r">>) THEN Val
  ELSE {0}

RecordsOf(names) ==
  {r \in [1..Len(names) -> 0..(IF MaxObj > MaxVal THEN MaxObj ELSE MaxVal)] :
     \A k \in 1..Len(names) : r[k] \in FieldValues(names[k])}

Populations ==
  UNION {[names : {h}, rows : SeqsOf(RecordsOf(h), 0, MaxRecords)] : h \in Headers}

\* spotpy.analyser.load_csv_results is numpy.genfromtxt(names=True): a file
\* of one record comes back as a 0-dimensional array, any other file as a
\* 1-dimensional array of its records.
load_csv_results(csv) ==
  [ndim |-> IF Len(csv.rows) = 1 THEN 0 ELSE 1,
   names |-> csv.names,
   rows |-> csv.rows]

\* Position of a field name in the header, 0 when it has no such field.
FieldPos(names, name) ==
  IF \E k \in 1..Len(names) : names[k] = name
  THEN CHOOSE k \in 1..Len(names) : names[k] = name
  ELSE 0

SeqMin(s) == CHOOSE m \in {s[i] : i \in 1..Len(s)} : \A i \in 1..Len(s) : m <= s[i]

\* spotpy.analyser.get_minlikeindex: the column 'like' (else 'like1'), its
\* minimum (numpy.nanmin raises on an empty column), and the first position
\* that holds it (numpy.where(likes == minimum)[0][0]).
get_minlikeindex(results) ==
  LET col == IF FieldPos(results.names, like) # 0
             THEN FieldPos(results.names, like)
             ELSE FieldPos(results.names, like1)
      likes == [i \in 1..Len(results.rows) |-> results.rows[i][col]]
  IN IF col = 0 \/ Len(results.rows) = 0
     THEN [raised |-> TRUE, bestindex |-> 0, bestobjf |-> 0]
     ELSE [raised |-> FALSE,
           bestindex |-> CHOOSE i \in 1..Len(likes) :
                           /\ likes[i] = SeqMin(likes)
                           /\ \A j \in 1..(i - 1) : likes[j] # SeqMin(likes),
           bestobjf |-> SeqMin(likes)]

\* [word for word in best_model_run.dtype.names if word.startswith("par")],
\* as the positions of the kept names.
RECURSIVE ParFields(_, _)
ParFields(names, k) ==
  IF k > Len(names) THEN <<>>
  ELSE (IF startswith(names[k], <<"p", "a", "r">>) THEN <<k>> ELSE <<>>)
       \o ParFields(names, k + 1)

\* A variant of the record lookup that accepts an empty field list.
SelectFieldsUnchecked(best_model_run, fields) ==
  [raised |-> FALSE,
   values |-> [k \in 1..Len(fields) |-> best_model_run[fields[k]]]]

\* best_model_run[fields]: the values of the named fields, in the order of
\* the list; numpy takes an empty list for an index array, which a record
\* (0-dimensional) refuses with IndexError.
SelectFields(best_model_run, fields) ==
  IF fields = <<>>
  THEN [raised |-> TRUE, values |-> <<>>]
  ELSE [raised |-> FALSE,
        values |-> [k \in 1..Len(fields) |-> best_model_run[fields[k]]]]

\* DataFrame(list(values)).to_csv(index=False, header=True): one column,
\* whose label 0 is the header line, then one value per line.
to_csv_column(values) == TextFile(<<0>> \o values)

Raise == [raised |-> TRUE, file |-> NoFile, ret |-> <<>>]

\* The whole function: what it saved (NoFile when it wrote nothing) and what
\* it returned.
read_save_sceua_calibrated_params(csv) ==
  LET results == load_csv_results(csv)
      got == get_minlikeindex(results)
  IN IF got.raised THEN Raise
     ELSE IF results.ndim = 0 THEN Raise   \* results[bestindex] on a 0-d array
     ELSE LET best_model_run == results.rows[got.bestindex]
              fields == ParFields(results.names, 1)
              best == SelectFields(best_model_run, fields)
          IN IF best.raised THEN Raise
             ELSE [raised |-> FALSE,
                   file |-> to_csv_column(best.values),
                   ret |-> best.values]

(***************************************************************************)
(* summarize_parameters and renormalize_params                             *)
(***************************************************************************)
\* hydromodel.models.model_config.MODEL_PARAM_DICT: per model, the list of
\* parameter names and the ordered mapping name -> [low, high], kept as the
\* sequence of its items.  The bounds are on a grid of tenths.  The two are
\* separate entries of the configuration: "xaj" declares its bounds in the
\* order of its names, "xaj_mz" declares them in another order.
MODEL_PARAM_DICT ==
  [m \in {"xaj", "xaj_mz"} |->
     IF m = "xaj"
     THEN [param_name |-> <<"K", "B">>,
           param_range |-> << <<"K", <<1, 10>> >>, <<"B", <<1, 4>> >> >>]
     ELSE [param_name |-> <<"K", "B">>,
           param_range |-> << <<"B", <<1, 4>> >>, <<"K", <<1, 10>> >> >>]]

\* The vectors a parameter file may hold: read_save_sceua_calibrated_params
\* writes one value per field with the prefix, whatever the model declares.
\* Lengths go from one short of the declared count to one beyond it.
StoredVectors ==
  UNION {SeqsOf(Val, Len(MODEL_PARAM_DICT[m].param_name) - 1,
                Len(MODEL_PARAM_DICT[m].param_name) + 1) \ {<<>>}
         : m \in DOMAIN MODEL_PARAM_DICT}

ParamFiles == {NoFile} \cup {TextFile(<<0>> \o v) : v \in StoredVectors}

\* pd.read_csv: the first line is the header, each further line a row of
\* the one column.
read_csv_values(file) == Tail(file.lines)

\* np.loadtxt: every line is a number, the header line (the label 0) too.
loadtxt(file) == file.lines

\* A variant that labels the values in reverse.
ParamsRowReversed(values, columns) ==
  [raised |-> Len(values) # Len(columns),
   row |-> [k \in 1..Len(values) |-> values[Len(values) + 1 - k]]]

\* pd.DataFrame(params_txt.values.T, columns=columns): one row holding the
\* values under the given column labels; the shapes must agree.
ParamsRow(values, columns) ==
  [raised |-> Len(values) # Len(columns), row |-> values]

\* The whole of summarize_parameters: the table it wrote, if it got there.
summarize_parameters(files, model, ids) ==
  LET columns == MODEL_PARAM_DICT[model].param_name
      frame(b) == IF files[b].exists
                  THEN ParamsRow(read_csv_values(files[b]), columns)
                  ELSE [raised |-> TRUE, row |-> <<>>]
      params == [k \in 1..Len(ids) |-> frame(ids[k])]
  IN IF \E k \in 1..Len(ids) : params[k].raised
     THEN [raised |-> TRUE, table |-> NoTable]
     ELSE IF Len(ids) = 0                        \* pd.concat of no frames
     THEN [raised |-> TRUE, table |-> NoTable]
     ELSE [raised |-> FALSE,
           table |-> Transpose(ids, columns,
                               [k \in 1..Len(ids) |-> params[k].row])]

\* A variant that adds the upper bound instead of the lower one.
DenormalizeHigh(value, x) == (value[2] - value[1]) * x + value[2]

\* (value[1] - value[0]) * params[:, i] + value[0]
Denormalize(value, x) == (value[2] - value[1]) * x + value[1]

\* The list comprehension of renormalize_params for one basin: the i-th item
\* of the bound mapping with the i-th stored value; a missing i-th value is
\* an IndexError.
xaj_params(params, param_ranges) ==
  IF Len(params) < Len(param_ranges)
  THEN [raised |-> TRUE, column |-> <<>>]
  ELSE [raised |-> FALSE,
        column |-> [i \in 1..Len(param_ranges) |->
                      Denormalize(param_ranges[i][2], params[i])]]

\* The whole of renormalize_params.
renormalize_params(files, model, ids) ==
  LET param_ranges == MODEL_PARAM_DICT[model].param_range
      frame(b) == IF files[b].exists
                  THEN xaj_params(Tail(loadtxt(files[b])), param_ranges)
                  ELSE [raised |-> TRUE, column |-> <<>>]
      frames == [k \in 1..Len(ids) |-> frame(ids[k])]
      index == MODEL_PARAM_DICT[model].param_name
  IN IF \E k \in 1..Len(ids) : frames[k].raised
     THEN [raised |-> TRUE, table |-> NoTable]
     ELSE IF Len(ids) = 0                        \* pd.concat of no frames
     THEN [raised |-> TRUE, table |-> NoTable]
     ELSE IF Len(index) # Len(param_ranges)      \* .index = param_name
     THEN [raised |-> TRUE, table |-> NoTable]
     ELSE [raised |-> FALSE,
           table |-> Table(index, ids,
                           [i \in 1..Len(index) |->
                              [k \in 1..Len(ids) |-> frames[k].column[i]]])]

(***************************************************************************)
(* summarize_metrics                                                       *)
(***************************************************************************)
\* The metric names, in the order the evaluation writes them.
MetricNames == <<"NSE", "RMSE">>

\* The number a metrics file of a basin holds under a name: the basin is in
\* the units, the name in the tens, the split in the hundreds, so that no
\* two cells agree and no sum of two is a third.
metric_value(stem, split, key) ==
  (IF stem = "b1" THEN 1 ELSE 2)
  + (IF key = "NSE" THEN 10 ELSE 30)
  + (IF split = "train" THEN 100 ELSE 500)

\* The shape of a metrics file: the names it has, and whether it holds each
\* number bare (a scalar) or in a list of one element.
MetricFiles == [keys : SUBSET {"NSE", "RMSE"}, kind : {"scalar", "list"}]

BasinDirs == [stem : Basins, train : MetricFiles, test : MetricFiles]

\* hydro_file.unserialize_json of <basin>/<split>_metrics.json
unserialize_json(dir, split) ==
  LET file == IF split = "train" THEN dir.train ELSE dir.test
  IN [key \in file.keys |->
        [kind |-> file.kind, v |-> <<metric_value(dir.stem, split, key)>>]]

\* Python's + on two json values: numbers add, lists concatenate, a number
\* and a list is a TypeError.
Plus(a, b) ==
  IF a.kind # b.kind THEN [raised |-> TRUE, value |-> a]
  ELSE IF a.kind = "scalar"
  THEN [raised |-> FALSE, value |-> [kind |-> "scalar", v |-> <<a.v[1] + b.v[1]>>]]
  ELSE [raised |-> FALSE, value |-> [kind |-> "list", v |-> a.v \o b.v]]

\* One pass of the loop body over one metric mapping: the first basin sets
\* the entries, a later basin adds to the entry of each of its names (a
\* name without entry is a KeyError).
accumulate(metrics, metric, count) ==
  IF count = 0
  THEN [raised |-> FALSE,
        metrics |-> [key \in DOMAIN metrics \cup DOMAIN metric |->
                       IF key \in DOMAIN metric THEN metric[key] ELSE metrics[key]]]
  ELSE IF \E key \in DOMAIN metric :
            key \notin DOMAIN metrics \/ Plus(metrics[key], metric[key]).raised
  THEN [raised |-> TRUE, metrics |-> metrics]
  ELSE [raised |-> FALSE,
        metrics |-> [key \in DOMAIN metrics |->
                       IF key \in DOMAIN metric
                       THEN Plus(metrics[key], metric[key]).value
                       ELSE metrics[key]]]

\* The loop over the basin directories, for one split, from directory k on.
RECURSIVE collect(_, _, _, _)
collect(dirs, split, k, metrics) ==
  IF k > Len(dirs) THEN [raised |-> FALSE, metrics |-> metrics]
  ELSE LET step == accumulate(metrics, unserialize_json(dirs[k], split), k - 1)
       IN IF step.raised THEN step
          ELSE collect(dirs, split, k + 1, step.metrics)

\* The names of a mapping, in their order.
KeysOf(metrics) ==
  SelectSeq(MetricNames, LAMBDA key : key \in DOMAIN metrics)

\* pd.DataFrame(metrics, index=basin_ids).transpose(): a list must have one
\* element per index entry, a scalar is repeated along the index.
metric_dfs(metrics, ids) ==
  IF \E key \in DOMAIN metrics :
       metrics[key].kind = "list" /\ Len(metrics[key].v) # Len(ids)
  THEN [raised |-> TRUE, table |-> NoTable]
  ELSE [raised |-> FALSE,
        table |-> Table(KeysOf(metrics), ids,
                        [r \in 1..Len(KeysOf(metrics)) |->
                           [c \in 1..Len(ids) |->
                              LET x == metrics[KeysOf(metrics)[r]]
                              IN IF x.kind = "scalar" THEN x.v[1] ELSE x.v[c]]])]

\* A variant that writes the train table as soon as it is built.
save_metrics_early(train, test) ==
  [raised |-> train.raised \/ test.raised,
   train |-> train.table,
   test |-> IF train.raised \/ test.raised THEN NoTable ELSE test.table]

\* Both frames are built before either file is written.
save_metrics(train, test) ==
  IF train.raised \/ test.raised
  THEN [raised |-> TRUE, train |-> NoTable, test |-> NoTable]
  ELSE [raised |-> FALSE, train |-> train.table, test |-> test.table]

\* The whole of summarize_metrics.
summarize_metrics(dirs) ==
  LET ids == [k \in 1..Len(dirs) |-> dirs[k].stem]
      train == collect(dirs, "train", 1, <<>>)
      test == collect(dirs, "test", 1, <<>>)
  IN IF train.raised \/ test.raised
     THEN [raised |-> TRUE, train |-> NoTable, test |-> NoTable]
     ELSE save_metrics(metric_dfs(train.metrics, ids), metric_dfs(test.metrics, ids))

(***************************************************************************)
(* read_and_save_et_ouputs                                                 *)
(***************************************************************************)
\* hydromodel.models.xaj.xaj, second result: for a forcing array of `steps`
\* time steps and `nbasin` basin columns and one parameter vector, the
\* evapotranspiration of every step after the warm-up, for every basin
\* column.  The value names the run that produced it.
xaj(split, steps, nbasin, params, warmup_length) ==
  [t \in 1..(IF steps > warmup_length THEN steps - warmup_length ELSE 0) |->
     [j \in 1..nbasin |->
        [split |-> split, forcing |-> j, step |-> warmup_length + t,
         params |-> params]]]

\* ndarray.flatten of a (time, basin, 1) array: time-major.
flatten(e, nbasin) ==
  [k \in 1..(Len(e) * nbasin) |-> e[((k - 1) \div nbasin) + 1][((k - 1) % nbasin) + 1]]

\* period[warmup_length:] of the period 1..n
DropWarmup(n, warmup_length) ==
  [t \in 1..(IF n > warmup_length THEN n - warmup_length ELSE 0) |-> warmup_length + t]

\* The loop of read_and_save_et_ouputs for one split, and the frame built
\* from it: every call gets the forcing of all basin columns of the array.
df_e(split, info, param_values, warmup_length) ==
  LET basins_id == param_values.columns
      column(i) == [p \in 1..Len(param_values.index) |-> param_values.values[p][i]]
      es == [i \in 1..Len(basins_id) |->
               flatten(xaj(split, info.steps, info.nbasin, column(i), warmup_length),
                       info.nbasin)]
      index == DropWarmup(info.time, warmup_length)
  IN IF Len(es[1]) # Len(index)
     THEN [raised |-> TRUE, table |-> NoTable]
     ELSE [raised |-> FALSE,
           table |-> Table(index, basins_id,
                           [r \in 1..Len(index) |->
                              [i \in 1..Len(basins_id) |-> es[i][r]]])]

\* The whole of read_and_save_et_ouputs.
read_and_save_et_ouputs(param_values, args, info_train, info_test) ==
  LET train == df_e("train", info_train, param_values, args.warmup_length)
      test == df_e("test", info_test, param_values, args.warmup_length)
  IN IF train.raised \/ test.raised
     THEN [raised |-> TRUE, train |-> NoTable, test |-> NoTable]
     ELSE [raised |-> FALSE, train |-> train.table, test |-> test.table]

(***************************************************************************)
(* The state machine: a run exercises one stage of the pipeline on inputs  *)
(* of that stage, and calls one of its functions.                          *)
(***************************************************************************)
NoPopulation == [names |-> <<>>, rows |-> <<>>]
NoInfo == [time |-> 0, steps |-> 0, nbasin |-> 0]

\* Lists of distinct basins of the given lengths.
BasinLists(lo, hi) == {s \in SeqsOf(Basins, lo, hi) : Distinct(s)}

\* Directory listings: for each list of distinct basins, one directory each.
DirListings ==
  UNION {{d \in [1..Len(s) -> BasinDirs] : \A k \in 1..Len(s) : d[k].stem = s[k]}
         : s \in BasinLists(0, Cardinality(Basins))}

\* The tables summarize_parameters writes for lists of distinct basins of
\* the model "xaj": the input of read_and_save_et_ouputs.
ParamTables ==
  UNION {{Table(MODEL_PARAM_DICT["xaj"].param_name, s, v) :
            v \in [1..Len(MODEL_PARAM_DICT["xaj"].param_name) -> [1..Len(s) -> Val]]}
         : s \in BasinLists(1, Cardinality(Basins))}

Idle ==
  /\ pc = "ready"
  /\ called = "none"
  /\ raised = FALSE
  /\ ret = <<>>
  /\ basins_renormalization_params_csv = NoTable
  /\ basins_metrics_train_csv = NoTable
  /\ basins_metrics_test_csv = NoTable
  /\ basin_etsim_train_csv = NoTable
  /\ basin_etsim_test_csv = NoTable

InitSelect ==
  /\ stage = "select"
  /\ basin_id \in Basins
  /\ sceua_csv \in Populations
  /\ params_txt = [b \in Basins |-> NoFile]
  /\ model_name = "xaj"
  /\ basin_ids = <<>>
  /\ basins_params_csv = NoTable
  /\ all_basins_files = <<>>
  /\ args_json = [warmup_length |-> 0]
  /\ data_info_train = NoInfo
  /\ data_info_test = NoInfo

InitParams ==
  /\ stage = "params"
  /\ basin_id = "b1"
  /\ sceua_csv = NoPopulation
  /\ params_txt \in [Basins -> ParamFiles]
  /\ model_name \in DOMAIN MODEL_PARAM_DICT
  /\ basin_ids \in SeqsOf(Basins, 0, MaxBasins)
  /\ basins_params_csv = NoTable
  /\ all_basins_files = <<>>
  /\ args_json = [warmup_length |-> 0]
  /\ data_info_train = NoInfo
  /\ data_info_test = NoInfo

InitMetrics ==
  /\ stage = "metrics"
  /\ basin_id = "b1"
  /\ sceua_csv = NoPopulation
  /\ params_txt = [b \in Basins |-> NoFile]
  /\ model_name = "xaj"
  /\ basin_ids = <<>>
  /\ basins_params_csv = NoTable
  /\ all_basins_files \in DirListings
  /\ args_json = [warmup_length |-> 0]
  /\ data_info_train = NoInfo
  /\ data_info_test = NoInfo

\* The forcing arrays hold one column per basin of the experiment, the
\* basins of the parameter table.
InitReplay ==
  /\ stage = "replay"
  /\ basin_id = "b1"
  /\ sceua_csv = NoPopulation
  /\ params_txt = [b \in Basins |-> NoFile]
  /\ model_name = "xaj"
  /\ basin_ids = <<>>
  /\ basins_params_csv \in ParamTables
  /\ all_basins_files = <<>>
  /\ args_json \in [warmup_length : 0..MaxWarm]
  /\ data_info_train \in [time : 1..MaxT, steps : 1..MaxT,
                          nbasin : {Len(basins_params_csv.columns)}]
  /\ data_info_test \in [time : 1..MaxT, steps : 1..MaxT,
                         nbasin : {Len(basins_params_csv.columns)}]

Init == Idle /\ (InitSelect \/ InitParams \/ InitMetrics \/ InitReplay)

ReadSaveSceuaCalibratedParams ==
  /\ stage = "select" /\ pc = "ready"
  /\ LET out == read_save_sceua_calibrated_params(sceua_csv)
     IN /\ raised' = out.raised
        /\ ret' = out.ret
        /\ params_txt' = IF out.raised THEN params_txt
                         ELSE [params_txt EXCEPT ![basin_id] = out.file]
  /\ pc' = "done"
  /\ called' = "read_save_sceua_calibrated_params"
  /\ UNCHANGED << stage, basin_id, sceua_csv, model_name, basin_ids,
                  basins_params_csv, basins_renormalization_params_csv,
                  all_basins_files, basins_metrics_train_csv,
                  basins_metrics_test_csv, args_json, data_info_train,
                  data_info_test, basin_etsim_train_csv, basin_etsim_test_csv >>

SummarizeParameters ==
  /\ stage = "params" /\ pc = "ready"
  /\ LET out == summarize_parameters(params_txt, model_name, basin_ids)
     IN /\ raised' = out.raised
        /\ basins_params_csv' = IF out.raised THEN basins_params_csv ELSE out.table
  /\ pc' = "done"
  /\ called' = "summarize_parameters"
  /\ UNCHANGED << stage, basin_id, sceua_csv, params_txt, ret, model_name,
                  basin_ids, basins_renormalization_params_csv,
                  all_basins_files, basins_metrics_train_csv,
                  basins_metrics_test_csv, args_json, data_info_train,
                  data_info_test, basin_etsim_train_csv, basin_etsim_test_csv >>

RenormalizeParams ==
  /\ stage = "params" /\ pc = "ready"
  /\ LET out == renormalize_params(params_txt, model_name, basin_ids)
     IN /\ raised' = out.raised
        /\ basins_renormalization_params_csv' =
             IF out.raised THEN basins_renormalization_params_csv ELSE out.table
  /\ pc' = "done"
  /\ called' = "renormalize_params"
  /\ UNCHANGED << stage, basin_id, sceua_csv, params_txt, ret, model_name,
                  basin_ids, basins_params_csv, all_basins_files,
                  basins_metrics_train_csv, basins_metrics_test_csv, args_json,
                  data_info_train, data_info_test, basin_etsim_train_csv,
                  basin_etsim_test_csv >>

SummarizeMetrics ==
  /\ stage = "metrics" /\ pc = "ready"
  /\ LET out == summarize_metrics(all_basins_files)
     IN /\ raised' = out.raised
        /\ basins_metrics_train_csv' =
             IF out.train.exists THEN out.train ELSE basins_metrics_train_csv
        /\ basins_metrics_test_csv' =
             IF out.test.exists THEN out.test ELSE basins_metrics_test_csv
  /\ pc' = "done"
  /\ called' = "summarize_metrics"
  /\ UNCHANGED << stage, basin_id, sceua_csv, params_txt, ret, model_name,
                  basin_ids, basins_params_csv,
                  basins_renormalization_params_csv, all_basins_files,
                  args_json, data_info_train, data_info_test,
                  basin_etsim_train_csv, basin_etsim_test_csv >>

ReadAndSaveEtOuputs ==
  /\ stage = "replay" /\ pc = "ready"
  /\ LET out == read_and_save_et_ouputs(basins_params_csv, args_json,
                                        data_info_train, data_info_test)
     IN /\ raised' = out.raised
        /\ basin_etsim_train_csv' =
             IF out.train.exists THEN out.train ELSE basin_etsim_train_csv
        /\ basin_etsim_test_csv' =
             IF out.test.exists THEN out.test ELSE basin_etsim_test_csv
  /\ pc' = "done"
  /\ called' = "read_and_save_et_ouputs"
  /\ UNCHANGED << stage, basin_id, sceua_csv, params_txt, ret, model_name,
                  basin_ids, basins_params_csv,
                  basins_renormalization_params_csv, all_basins_files,
                  basins_metrics_train_csv, basins_metrics_test_csv, args_json,
                  data_info_train, data_info_test >>

Next ==
  \/ ReadSaveSceuaCalibratedParams
  \/ SummarizeParameters
  \/ RenormalizeParams
  \/ SummarizeMetrics
  \/ ReadAndSaveEtOuputs

Spec == Init /\ [][Next]_vars

(***************************************************************************)
(* Properties.                                                             *)
(***************************************************************************)
Done(fn) == pc = "done" /\ called = fn

\* The objective value of record i of a population.
ObjOf(csv, i) == csv.rows[i][FieldPos(csv.names, like1)]

\* Record i has the least objective value and is the first to have it.
IsFirstMin(csv, i) ==
  /\ \A j \in 1..Len(csv.rows) : ObjOf(csv, i) <= ObjOf(csv, j)
  /\ \A j \in 1..(i - 1) : ObjOf(csv, j) > ObjOf(csv, i)

HasParField(csv) ==
  \E k \in 1..Len(csv.names) : startswith(csv.names[k], <<"p", "a", "r">>)

\* The values record i holds under the fields with the prefix, in field order.
ParVector(csv, i) ==
  LET positions == SelectSeq([k \in 1..Len(csv.names) |-> k],
                             LAMBDA k : startswith(csv.names[k], <<"p", "a", "r">>))
  IN [k \in 1..Len(positions) |-> csv.rows[i][positions[k]]]

SelectedAndSaved(csv) ==
  /\ ~raised
  /\ \E i \in 1..Len(csv.rows) :
       /\ IsFirstMin(csv, i)
       /\ ret = ParVector(csv, i)
       /\ params_txt[basin_id].exists
       /\ Tail(params_txt[basin_id].lines) = ParVector(csv, i)

\* C1: for every non-empty population (with parameter fields),
\* read_save_sceua_calibrated_params returns the parameter vector of the
\* first record that has the minimum objective value, and the vector saved
\* for the basin is that record's parameter fields in field order.
C1_SelectBestEveryNonEmpty ==
  (Done("read_save_sceua_calibrated_params")
     /\ Len(sceua_csv.rows) >= 1 /\ HasParField(sceua_csv))
  => SelectedAndSaved(sceua_csv)

\* C1, for populations of two records or more: the same statement.
C1_SelectBestTwoOrMore ==
  (Done("read_save_sceua_calibrated_params")
     /\ Len(sceua_csv.rows) >= 2 /\ HasParField(sceua_csv))
  => SelectedAndSaved(sceua_csv)

\* A population of two records that tie on the objective and differ in
\* their parameters has been processed.
C1_TieProcessed ==
  /\ Done("read_save_sceua_calibrated_params") /\ ~raised
  /\ Len(sceua_csv.rows) = 2
  /\ ObjOf(sceua_csv, 1) = ObjOf(sceua_csv, 2)
  /\ ParVector(sceua_csv, 1) # ParVector(sceua_csv, 2)

\* C8: read_save_sceua_calibrated_params raises, and saves no parameter
\* file for the basin, when the population has no record and when no field
\* name of the population has the parameter prefix.
C8_EmptyOrMalformedRaises ==
  (Done("read_save_sceua_calibrated_params")
     /\ (Len(sceua_csv.rows) = 0 \/ ~HasParField(sceua_csv)))
  => (raised /\ ~params_txt[basin_id].exists)

\* A population of two records without any parameter field has been refused.
C8_MalformedRefused ==
  /\ Done("read_save_sceua_calibrated_params") /\ raised
  /\ Len(sceua_csv.rows) = 2
  /\ ~HasParField(sceua_csv)

\* The stored vector of a basin.
StoredVector(b) == Tail(params_txt[b].lines)

\* The bound the configuration declares for a parameter name.
BoundOf(model, name) ==
  LET ranges == MODEL_PARAM_DICT[model].param_range
  IN ranges[CHOOSE i \in 1..Len(ranges) : ranges[i][1] = name][2]

\* The bound mapping iterates in the order of the declared names.
DeclaredInNameOrder(model) ==
  LET ranges == MODEL_PARAM_DICT[model].param_range
      names == MODEL_PARAM_DICT[model].param_name
  IN /\ Len(ranges) = Len(names)
     /\ \A i \in 1..Len(names) : ranges[i][1] = names[i]

\* The renormalized table has the declared names as rows, the given basins
\* as columns, and in row i of basin b the affine image of b's i-th stored
\* value under the bound declared for the i-th name.
RenormalizedByName ==
  LET names == MODEL_PARAM_DICT[model_name].param_name
      t == basins_renormalization_params_csv
  IN /\ t.exists
     /\ t.index = names
     /\ t.columns = basin_ids
     /\ \A i \in 1..Len(names), k \in 1..Len(basin_ids) :
          LET lo == BoundOf(model_name, names[i])[1]
              hi == BoundOf(model_name, names[i])[2]
              x == StoredVector(basin_ids[k])[i]
          IN t.values[i][k] = lo + x * (hi - lo)

AllOfDeclaredLength ==
  \A k \in 1..Len(basin_ids) :
    /\ params_txt[basin_ids[k]].exists
    /\ Len(StoredVector(basin_ids[k])) = Len(MODEL_PARAM_DICT[model_name].param_name)

\* basins_params.csv has the declared names as rows, the given basins as
\* columns in the given order, and in cell (i, b) the i-th stored value of b.
SummaryWritten ==
  LET names == MODEL_PARAM_DICT[model_name].param_name
      t == basins_params_csv
  IN /\ ~raised
     /\ t.exists
     /\ t.index = names
     /\ t.columns = basin_ids
     /\ \A i \in 1..Len(names), k \in 1..Len(basin_ids) :
          t.values[i][k] = StoredVector(basin_ids[k])[i]

\* C3 as stated: for any list of basin ids whose stored vectors have the
\* declared length, summarize_parameters writes the table of the stored
\* vectors, one column per basin in list order, one row per declared name.
C3_SummarizeAnyList ==
  (Done("summarize_parameters") /\ AllOfDeclaredLength) => SummaryWritten

\* C3 as amended: the same, for any list of at least one basin id.
C3_SummarizeNonEmptyList ==
  (Done("summarize_parameters") /\ AllOfDeclaredLength /\ Len(basin_ids) >= 1)
  => SummaryWritten

\* Two basins with different stored vectors have been summarized, the list
\* not in the order of the basin names.
C3_TwoBasinsSummarized ==
  /\ Done("summarize_parameters") /\ ~raised
  /\ basin_ids = <<"b2", "b1">>
  /\ StoredVector("b1") = <<0, 1>>
  /\ StoredVector("b2") = <<1, 1>>

\* C7: renormalize_params raises whenever the stored vector of a listed
\* basin has a length other than the number of declared bounds, shorter or
\* longer.
C7_LengthMismatchRaises ==
  (Done("renormalize_params")
     /\ \E k \in 1..Len(basin_ids) :
          /\ params_txt[basin_ids[k]].exists
          /\ Len(StoredVector(basin_ids[k]))
               # Len(MODEL_PARAM_DICT[model_name].param_range))
  => raised

\* The metric names of a basin directory for a split.
NamesOf(dir, split) == IF split = "train" THEN dir.train.keys ELSE dir.test.keys

Splits == {"train", "test"}

\* Some basin directory after the first has, for some split, another set
\* of metric names than the first directory.
SchemaDiffers ==
  \E k \in 2..Len(all_basins_files), split \in Splits :
    NamesOf(all_basins_files[k], split) # NamesOf(all_basins_files[1], split)

NoMetricsTable ==
  ~basins_metrics_train_csv.exists /\ ~basins_metrics_test_csv.exists

\* C4: summarize_metrics raises, and writes no table, whenever a basin has
\* another set of metric names than the first basin processed, whether it
\* adds a name or omits one.
C4_SchemaMismatchRaises ==
  (Done("summarize_metrics") /\ SchemaDiffers) => (raised /\ NoMetricsTable)

\* Every metrics file holds its numbers bare.
AllScalar ==
  \A k \in 1..Len(all_basins_files) :
    all_basins_files[k].train.kind = "scalar" /\ all_basins_files[k].test.kind = "scalar"

\* The table of a split has one column per basin directory, in directory
\* order, one row per metric name, and in cell (m, b) the number of b's own
\* file.
OwnValues(t, split) ==
  LET ids == [k \in 1..Len(all_basins_files) |-> all_basins_files[k].stem]
  IN /\ t.exists
     /\ t.columns = ids
     /\ \A r \in 1..Len(t.index), c \in 1..Len(ids) :
          t.values[r][c] = metric_value(ids[c], split, t.index[r])

\* C5: when all basins have the same metric names and the files hold
\* scalars, each table has one column per basin in discovery order and
\* each cell holds the value of that basin's own file.
C5_ColumnsHoldOwnValues ==
  (Done("summarize_metrics") /\ ~SchemaDiffers /\ AllScalar)
  => /\ ~raised
     /\ OwnValues(basins_metrics_train_csv, "train")
     /\ OwnValues(basins_metrics_test_csv, "test")

\* The same for files that hold each number in a list of one element.
C5_ListsHoldOwnValues ==
  (Done("summarize_metrics") /\ ~SchemaDiffers /\ ~raised
     /\ \A k \in 1..Len(all_basins_files) :
          all_basins_files[k].train.kind = "list"
          /\ all_basins_files[k].test.kind = "list")
  => /\ OwnValues(basins_metrics_train_csv, "train")
     /\ OwnValues(basins_metrics_test_csv, "test")

\* The rows of an evapotranspiration table are the period without its
\* first warmup_length entries.
RowsAfterWarmup(t, info) ==
  /\ t.exists
  /\ Len(t.index) = info.time - args_json.warmup_length
  /\ \A r \in 1..Len(t.index) : t.index[r] = args_json.warmup_length + r

\* C6: each table of read_and_save_et_ouputs has len(period) -
\* warmup_length rows, indexed by the period after the warm-up, and when
\* warmup_length exceeds the length of a period the function raises and
\* writes no table.
C6_WarmupAlignment ==
  Done("read_and_save_et_ouputs")
  => /\ ~raised => /\ RowsAfterWarmup(basin_etsim_train_csv, data_info_train)
                   /\ RowsAfterWarmup(basin_etsim_test_csv, data_info_test)
     /\ (args_json.warmup_length > data_info_train.time
           \/ args_json.warmup_length > data_info_test.time)
        => (raised /\ ~basin_etsim_train_csv.exists /\ ~basin_etsim_test_csv.exists)

\* The forcing array and the period of a split agree, and the warm-up fits.
Aligned(info) ==
  info.steps = info.time /\ args_json.warmup_length <= info.time

\* Column i of the table is the series of the run of basin i's own forcing
\* column with basin i's own parameter column.
OwnRuns(t, split) ==
  /\ t.exists
  /\ t.columns = basins_params_csv.columns
  /\ \A r \in 1..Len(t.index), i \in 1..Len(t.columns) :
       t.values[r][i] =
         [split |-> split, forcing |-> i, step |-> args_json.warmup_length + r,
          params |-> [p \in 1..Len(basins_params_csv.index) |->
                        basins_params_csv.values[p][i]]]

\* C10: for any number of basins, read_and_save_et_ouputs assembles tables
\* whose column of basin b is the series the simulator returns for b's own
\* forcing with b's own parameters, columns in the order of the parameter
\* table.
C10_ColumnsAreOwnRuns ==
  (Done("read_and_save_et_ouputs") /\ Aligned(data_info_train) /\ Aligned(data_info_test))
  => /\ ~raised
     /\ OwnRuns(basin_etsim_train_csv, "train")
     /\ OwnRuns(basin_etsim_test_csv, "test")

\* C9: when summarize_parameters, renormalize_params, summarize_metrics or
\* read_and_save_et_ouputs raises, it has written none of its tables, and
\* neither of the paired tables is ever there without the other.
C9_FailureWritesNothing ==
  /\ (Done("summarize_parameters") /\ raised) => ~basins_params_csv.exists
  /\ (Done("renormalize_params") /\ raised) => ~basins_renormalization_params_csv.exists
  /\ (Done("summarize_metrics") /\ raised) => NoMetricsTable
  /\ (Done("read_and_save_et_ouputs") /\ raised)
       => (~basin_etsim_train_csv.exists /\ ~basin_etsim_test_csv.exists)
  /\ basins_metrics_train_csv.exists <=> basins_metrics_test_csv.exists
  /\ basin_etsim_train_csv.exists <=> basin_etsim_test_csv.exists

\* summarize_metrics has raised on two basins whose train metrics alone
\* make a table: only the test metrics of the second basin lack a name.
C9_TestSplitFailedAlone ==
  /\ Done("summarize_metrics") /\ raised
  /\ Len(all_basins_files) = 2
  /\ \A k \in 1..2 : /\ all_basins_files[k].train = [keys |-> {"NSE", "RMSE"}, kind |-> "list"]
                     /\ all_basins_files[k].test.kind = "list"
  /\ all_basins_files[1].test.keys = {"NSE", "RMSE"}
  /\ all_basins_files[2].test.keys = {"NSE"}

====
